---- MODULE Spec2Model ----
(***************************************************************************)
(* Model of main.py: a command-line dispatcher that parses its arguments,  *)
(* validates the target path, runs one external static-analysis tool       *)
(* (bandit, flake8, pylint or pyre) as a subprocess and routes the         *)
(* resulting text to a report file or to standard output.                  *)
(*                                                                         *)
(* A Python str is modelled as a sequence of atoms.  An atom is either a   *)
(* single character of a user-supplied string or one literal fragment of   *)
(* the source text; string concatenation is sequence concatenation.        *)
(***************************************************************************)
EXTENDS Integers, Sequences, FiniteSets, TLC

VARIABLES
    argv,              \* the raw command line given to the process
    fs,                \* paths that exist on the filesystem
    pc,                \* position of main(): start, parsed, validated, running, analyzed, done
    args,              \* the Namespace returned by parse_args (NoArgs before that)
    exitCode,          \* process exit status (NoExit while running)
    pathChecked,       \* check_path has been called
    called,            \* adapters main has called, in order
    attempts,          \* commands handed to subprocess.run, in order
    proc,              \* the child process: none, running, exited, nostart
    run,               \* what subprocess.run produced (its result or its exception)
    analysis_results,  \* main's local variable analysis_results
    stdout,            \* text written to standard output
    report,            \* the report file on disk: [exists, data]
    report0,           \* the report file as it was before the run
    outcome,           \* how output routing ended: none, file, stdout, ioerror
    diag               \* records written to the diagnostic stream (stderr)

vars == <<argv, fs, pc, args, exitCode, pathChecked, called, attempts, proc, run,
          analysis_results, stdout, report, report0, outcome, diag>>

----------------------------------------------------------------------------
(* Bounds of the model *)

\* longest --exclude string of the whole-program specification
MaxExcludeLen == 2

\* longest --exclude string of the command-construction specification
MaxCmdExcludeLen == 5

----------------------------------------------------------------------------
(* Strings *)

\* characters an --exclude string is drawn from
ExcludeChars == {"a", "b", " ", ","}

Whitespace == {" "}

StringsUpTo(n) == UNION {[1..k -> ExcludeChars] : k \in 0..n}

\* index of the first comma of s, 0 if there is none
FirstComma(s) ==
    IF \E i \in 1..Len(s) : s[i] = ","
    THEN CHOOSE i \in 1..Len(s) : s[i] = "," /\ \A j \in 1..(i-1) : s[j] # ","
    ELSE 0

RECURSIVE Split(_)
\* str.split(','): the pieces between commas, empty pieces included
Split(s) ==
    LET i == FirstComma(s) IN
    IF i = 0 THEN <<s>>
    ELSE <<SubSeq(s, 1, i-1)>> \o Split(SubSeq(s, i+1, Len(s)))

RECURSIVE LStrip(_)
LStrip(s) == IF s # <<>> /\ Head(s) \in Whitespace THEN LStrip(Tail(s)) ELSE s

RECURSIVE RStrip(_)
RStrip(s) ==
    IF s # <<>> /\ s[Len(s)] \in Whitespace THEN RStrip(SubSeq(s, 1, Len(s)-1)) ELSE s

\* str.strip(): whitespace removed at both ends only
StripNoOp(s) == s

Strip(s) == RStrip(LStrip(s))

RECURSIVE Join(_, _)
\* sep.join(list)
Join(sep, list) ==
    IF list = <<>> THEN <<>>
    ELSE IF Len(list) = 1 THEN list[1]
    ELSE list[1] \o sep \o Join(sep, Tail(list))

RECURSIVE FilterNonEmpty(_)
FilterNonEmpty(list) ==
    IF list = <<>> THEN <<>>
    ELSE IF Head(list) # <<>> THEN <<Head(list)>> \o FilterNonEmpty(Tail(list))
    ELSE FilterNonEmpty(Tail(list))

\* [e.strip() for e in exclude.split(',') if e.strip()]
exclude_list(exclude) ==
    LET pieces == Split(exclude) IN
    FilterNonEmpty([i \in 1..Len(pieces) |-> Strip(pieces[i])])

\* t occurs in s as a contiguous run (Python's  t in s)
Contains(s, t) ==
    \E i \in 0..(Len(s) - Len(t)) : SubSeq(s, i+1, i+Len(t)) = t

IsPrefix(t, s) == Len(t) <= Len(s) /\ SubSeq(s, 1, Len(t)) = t

----------------------------------------------------------------------------
(* setup_argparse *)

NoArgs == [parsed |-> FALSE]

\* choices of --tool
ToolChoicesLax == {"bandit", "flake8", "pylint", "pyre-check", "mypy"}

ToolChoices == {"bandit", "flake8", "pylint", "pyre-check"}

\* default of --tool
ToolDefault == "bandit"

\* default of --exclude
ExcludeDefault == <<>>

\* parse_args accepts the command line: no unrecognized argument and a --tool
\* value among the choices
ArgsAccepted(raw) ==
    /\ ~raw.unrecognized
    /\ raw.tool.given => raw.tool.value \in ToolChoices

\* the Namespace parse_args returns for an accepted command line
Namespace(raw) ==
    [parsed      |-> TRUE,
     path        |-> raw.path,
     report_file |-> raw.report_file,
     exclude     |-> IF raw.exclude.given THEN raw.exclude.value ELSE ExcludeDefault,
     tool        |-> IF raw.tool.given THEN raw.tool.value ELSE ToolDefault]

----------------------------------------------------------------------------
(* check_path *)

check_path_lax(path, files) == TRUE

\* os.path.exists(path)
check_path(path, files) == path \in files

----------------------------------------------------------------------------
(* Commands of the four adapters *)

bandit_command(path, exclude) ==
    LET entries == exclude_list(exclude) IN
    << <<"bandit">>, <<"-r">>, path, <<"-f">>, <<"txt">> >>
        \o [i \in 1..Len(entries) |-> <<"--exclude=">> \o entries[i]]

flake8_command_always_exclude(path, exclude) ==
    << <<"flake8">>, path, <<"--extend-ignore=E722,B001,B028">>,
       <<"--select=E,W,F,C90">>, <<"--max-complexity=10">>,
       <<"--exclude">>, Join(<<",">>, exclude_list(exclude)) >>

flake8_command(path, exclude) ==
    LET command == << <<"flake8">>, path, <<"--extend-ignore=E722,B001,B028">>,
                      <<"--select=E,W,F,C90">>, <<"--max-complexity=10">> >>
        entries == exclude_list(exclude)
    IN  IF entries # <<>>
        THEN command \o << <<"--exclude">>, Join(<<",">>, entries) >>
        ELSE command

pylint_command(path, exclude) ==
    LET command == << <<"pylint">>, path, <<"--disable=C0301,W0703,W0702,broad-except">> >>
        entries == exclude_list(exclude)
    IN  IF entries # <<>>
        THEN command \o << <<"--ignore">>, Join(<<",">>, entries) >>
        ELSE command

pyre_command(path, exclude) == << <<"pyre">>, <<"analyze">>, path >>

Adapters == {"analyze_with_bandit", "analyze_with_flake8",
             "analyze_with_pylint", "analyze_with_pyre"}

\* the command the adapter builds before it calls subprocess.run
CommandOf(adapter, path, exclude) ==
    CASE adapter = "analyze_with_bandit" -> bandit_command(path, exclude)
      [] adapter = "analyze_with_flake8" -> flake8_command(path, exclude)
      [] adapter = "analyze_with_pylint" -> pylint_command(path, exclude)
      [] adapter = "analyze_with_pyre"   -> pyre_command(path, exclude)

----------------------------------------------------------------------------
(* subprocess.run(command, capture_output=True, text=True, check=True) *)

NoRun == [kind |-> "none"]

\* text the child may write to its standard output
ToolStdouts == {<<>>, <<"finding">>, <<"finding", "\n">>}

\* text the child may write to its standard error
ToolStderrs == {<<>>, <<"trace">>}

\* non-zero exit statuses of the child
FailureStatuses == {"1", "2"}

\* the child could not be started: Popen raises an OSError
StartFailures == {"FileNotFoundError", "PermissionError"}

\* the child ran to its end
ExitedRuns ==
    [kind : {"ok"}, stdout : ToolStdouts]
    \cup [kind : {"CalledProcessError"}, returncode : FailureStatuses,
          stdout : ToolStdouts, stderr : ToolStderrs]
    \cup [kind : {"UnicodeDecodeError"}]

\* repr of a command, as CalledProcessError prints it
ReprCommand(command) == Join(<<", ">>, command)

\* str(e) of the exception subprocess.run raised
StrExc(r, command) ==
    CASE r.kind = "CalledProcessError" ->
            <<"Command '[">> \o ReprCommand(command)
                \o <<"]' returned non-zero exit status ", r.returncode, ".">>
      [] r.kind = "FileNotFoundError" ->
            <<"[Errno 2] No such file or directory: '">> \o command[1] \o <<"'">>
      [] r.kind = "PermissionError" ->
            <<"[Errno 13] Permission denied: '">> \o command[1] \o <<"'">>
      [] r.kind = "UnicodeDecodeError" ->
            <<"'utf-8' codec can't decode byte">>

----------------------------------------------------------------------------
(* What each adapter returns for the outcome r of subprocess.run *)

analyze_with_bandit(r, command) ==
    CASE r.kind = "ok" -> r.stdout
      [] r.kind = "CalledProcessError" ->
            <<"Bandit analysis failed: ">> \o StrExc(r, command) \o <<"\n">> \o r.stderr
      [] OTHER -> <<"Error running Bandit: ">> \o StrExc(r, command)

analyze_with_flake8_no_stderr(r, command) ==
    CASE r.kind = "ok" -> r.stdout
      [] r.kind = "CalledProcessError" ->
            <<"Flake8 analysis failed: ">> \o StrExc(r, command)
      [] OTHER -> <<"Error running Flake8: ">> \o StrExc(r, command)

analyze_with_flake8(r, command) ==
    CASE r.kind = "ok" -> r.stdout
      [] r.kind = "CalledProcessError" ->
            <<"Flake8 analysis failed: ">> \o StrExc(r, command) \o <<"\n">> \o r.stderr
      [] OTHER -> <<"Error running Flake8: ">> \o StrExc(r, command)

analyze_with_pylint(r, command) ==
    CASE r.kind = "ok" -> r.stdout
      [] r.kind = "CalledProcessError" ->
            <<"Pylint analysis failed: ">> \o StrExc(r, command) \o <<"\n">> \o r.stderr
      [] OTHER -> <<"Error running Pylint: ">> \o StrExc(r, command)

analyze_with_pyre_generic(r, command) ==
    CASE r.kind = "ok" -> r.stdout
      [] r.kind = "CalledProcessError" ->
            <<"Pyre analysis failed: ">> \o StrExc(r, command) \o <<"\n">> \o r.stderr
      [] OTHER -> <<"Error running Pyre: ">> \o StrExc(r, command)

analyze_with_pyre(r, command) ==
    CASE r.kind = "ok" -> r.stdout
      [] r.kind = "CalledProcessError" ->
            <<"Pyre analysis failed: ">> \o StrExc(r, command) \o <<"\n">> \o r.stderr
      [] r.kind = "FileNotFoundError" ->
            <<"Pyre is not installed or not in PATH. Please install Pyre.">>
      [] OTHER -> <<"Error running Pyre: ">> \o StrExc(r, command)

\* the string the adapter returns
ResultOf(adapter, r, command) ==
    CASE adapter = "analyze_with_bandit" -> analyze_with_bandit(r, command)
      [] adapter = "analyze_with_flake8" -> analyze_with_flake8(r, command)
      [] adapter = "analyze_with_pylint" -> analyze_with_pylint(r, command)
      [] adapter = "analyze_with_pyre"   -> analyze_with_pyre(r, command)

\* the record the adapter logs when subprocess.run raised
ErrorLogOf(adapter, r) ==
    IF r.kind = "CalledProcessError" THEN <<"ERROR", adapter, "analysis failed">>
    ELSE IF adapter = "analyze_with_pyre" /\ r.kind = "FileNotFoundError"
    THEN <<"ERROR", adapter, "not installed or not in PATH">>
    ELSE <<"ERROR", adapter, "error running">>

----------------------------------------------------------------------------
(* main *)

NoExit == -1

\* if report_file:  (None and the empty string are both false)
Truthy(report_file) == report_file.given /\ report_file.name # <<>>

main_dispatch_shifted(tool) ==
    CASE tool = "bandit"     -> "analyze_with_flake8"
      [] tool = "flake8"     -> "analyze_with_pylint"
      [] tool = "pylint"     -> "analyze_with_pyre"
      [] tool = "pyre-check" -> "analyze_with_bandit"
      [] OTHER               -> "invalid"

\* the if/elif chain of main that chooses the analysis tool
main_dispatch(tool) ==
    CASE tool = "bandit"     -> "analyze_with_bandit"
      [] tool = "flake8"     -> "analyze_with_flake8"
      [] tool = "pylint"     -> "analyze_with_pylint"
      [] tool = "pyre-check" -> "analyze_with_pyre"
      [] OTHER               -> "invalid"

AfterAdapterRetry == "validated"

\* where main continues once the adapter has returned its string: output routing
AfterAdapter == "analyzed"

\* print(text): the text and a newline
print(out, text) == out \o text \o <<"\n">>

file_write_line(text) == [exists |-> TRUE, data |-> text \o <<"\n">>]

\* with open(report_file, "w") as f: f.write(text), all of it succeeding
file_write(text) == [exists |-> TRUE, data |-> text]

\* the report file after open(report_file, "w") succeeded and write or close raised
PartialWrites(text) ==
    {[exists |-> TRUE, data |-> SubSeq(text, 1, k)] : k \in 0..Len(text)}

\* parser.parse_args(): argparse reports a bad command line and exits with status 2
ParseArgs ==
    /\ pc = "start"
    /\ IF ArgsAccepted(argv)
       THEN /\ args' = Namespace(argv)
            /\ pc' = "parsed"
            /\ UNCHANGED <<exitCode, diag>>
       ELSE /\ exitCode' = 2
            /\ pc' = "done"
            /\ diag' = Append(diag, <<"USAGE", "argparse", "error">>)
            /\ UNCHANGED args
    /\ UNCHANGED <<argv, fs, pathChecked, called, attempts, proc, run,
                   analysis_results, stdout, report, report0, outcome>>

\* if not check_path(args.path): sys.exit(1)
ValidatePath ==
    /\ pc = "parsed"
    /\ pathChecked' = TRUE
    /\ IF check_path(args.path, fs)
       THEN /\ pc' = "validated"
            /\ UNCHANGED <<exitCode, diag>>
       ELSE /\ exitCode' = 1
            /\ pc' = "done"
            /\ diag' = Append(diag, <<"ERROR", "check_path", "does not exist">>)
    /\ UNCHANGED <<argv, fs, args, called, attempts, proc, run,
                   analysis_results, stdout, report, report0, outcome>>

\* main calls the adapter of args.tool; the adapter builds and logs its command
\* and subprocess.run starts the child, or fails to
CallAdapter ==
    /\ pc = "validated"
    /\ LET adapter == main_dispatch(args.tool) IN
       IF adapter = "invalid"
       THEN /\ exitCode' = 1
            /\ pc' = "done"
            /\ diag' = Append(diag, <<"ERROR", "main", "invalid tool">>)
            /\ UNCHANGED <<called, attempts, proc, run, analysis_results>>
       ELSE LET command == CommandOf(adapter, args.path, args.exclude) IN
            /\ called' = Append(called, adapter)
            /\ attempts' = Append(attempts, command)
            /\ \E started \in BOOLEAN :
                 IF started
                 THEN /\ proc' = "running"
                      /\ pc' = "running"
                      /\ diag' = Append(diag, <<"INFO", adapter, "running command">>)
                      /\ UNCHANGED <<run, analysis_results>>
                 ELSE \E k \in StartFailures :
                      /\ proc' = "nostart"
                      /\ run' = [kind |-> k]
                      /\ analysis_results' = ResultOf(adapter, run', command)
                      /\ pc' = AfterAdapter
                      /\ diag' = diag \o << <<"INFO", adapter, "running command">>,
                                            ErrorLogOf(adapter, run') >>
            /\ UNCHANGED exitCode
    /\ UNCHANGED <<argv, fs, args, pathChecked, stdout, report, report0, outcome>>

\* the child ends; subprocess.run returns or raises and the adapter returns its string
ProcessExit ==
    /\ pc = "running"
    /\ \E r \in ExitedRuns :
         /\ run' = r
         /\ analysis_results' = ResultOf(called[Len(called)], r, attempts[Len(attempts)])
         /\ diag' = IF r.kind = "ok" THEN diag
                    ELSE Append(diag, ErrorLogOf(called[Len(called)], r))
    /\ proc' = "exited"
    /\ pc' = AfterAdapter
    /\ UNCHANGED <<argv, fs, args, exitCode, pathChecked, called, attempts,
                   stdout, report, report0, outcome>>

\* the report goes to args.report_file, or to standard output; main returns
RouteOutput ==
    /\ pc = "analyzed"
    /\ IF Truthy(args.report_file)
       THEN /\ \E io \in {"ok", "open_raises", "write_raises"} :
                 IF io = "ok"
                 THEN /\ report' = file_write(analysis_results)
                      /\ outcome' = "file"
                      /\ exitCode' = 0
                      /\ diag' = Append(diag, <<"INFO", "main", "report saved">>)
                 ELSE /\ report' \in (IF io = "open_raises" THEN {report}
                                      ELSE PartialWrites(analysis_results))
                      /\ outcome' = "ioerror"
                      /\ exitCode' = 1
                      /\ diag' = Append(diag, <<"ERROR", "main", "error writing report">>)
            /\ UNCHANGED stdout
       ELSE /\ stdout' = print(stdout, analysis_results)
            /\ outcome' = "stdout"
            /\ exitCode' = 0
            /\ UNCHANGED <<report, diag>>
    /\ pc' = "done"
    /\ UNCHANGED <<argv, fs, args, pathChecked, called, attempts, proc, run,
                   analysis_results, report0>>

----------------------------------------------------------------------------
(* Command lines and environments *)

\* target paths a command line may name; only the first exists
ExistingPath == <<"/tmp/proj">>

MissingPath == <<"nowhere">>

Paths == {ExistingPath, MissingPath}

ReportFiles ==
    {[given |-> FALSE, name |-> <<>>],
     [given |-> TRUE,  name |-> <<>>],
     [given |-> TRUE,  name |-> <<"report.txt">>]}

\* the report file before the run: absent, or holding earlier content
ReportBefore == {[exists |-> FALSE, data |-> <<>>], [exists |-> TRUE, data |-> <<"old">>]}

\* the four tool names, and one name that is not among them
ToolNames == {"bandit", "flake8", "pylint", "pyre-check"}

ToolOptions ==
    {[given |-> FALSE, value |-> ""]}
    \cup [given : {TRUE}, value : ToolNames \cup {"mypy"}]

\* --exclude strings of the documented scenarios
ExcludeABC == <<"a", ",", " ", "b", " ", ",", "c">>

ExcludeTestsBuild == <<"tests", ",", "build">>

ExcludeScenarios == {ExcludeABC, ExcludeTestsBuild}

ExcludeOptions(n) ==
    {[given |-> FALSE, value |-> <<>>]} \cup [given : {TRUE}, value : StringsUpTo(n)]

InitRest ==
    /\ fs = {ExistingPath}
    /\ pc = "start"
    /\ args = NoArgs
    /\ exitCode = NoExit
    /\ pathChecked = FALSE
    /\ called = <<>>
    /\ attempts = <<>>
    /\ proc = "none"
    /\ run = NoRun
    /\ analysis_results = <<>>
    /\ stdout = <<>>
    /\ outcome = "none"
    /\ diag = <<>>

Init ==
    /\ argv \in [path : Paths, report_file : ReportFiles,
                 exclude : ExcludeOptions(MaxExcludeLen), tool : ToolOptions,
                 unrecognized : BOOLEAN]
    /\ report \in ReportBefore
    /\ report0 = report
    /\ InitRest

Next == ParseArgs \/ ValidatePath \/ CallAdapter \/ ProcessExit \/ RouteOutput

Spec == Init /\ [][Next]_vars

\* command lines with long --exclude strings and a tool named explicitly
InitCmd ==
    /\ argv \in [path : {ExistingPath}, report_file : {[given |-> FALSE, name |-> <<>>]},
                 exclude : [given : {TRUE},
                            value : StringsUpTo(MaxCmdExcludeLen) \cup ExcludeScenarios],
                 tool : [given : {TRUE}, value : ToolNames],
                 unrecognized : {FALSE}]
    /\ report = [exists |-> FALSE, data |-> <<>>]
    /\ report0 = report
    /\ InitRest

SpecCmd == InitCmd /\ [][Next]_vars

----------------------------------------------------------------------------
(* Vocabulary of the properties *)

Done == pc = "done"

PathMissing == argv.path \notin fs

\* --tool names a value outside bandit, flake8, pylint, pyre-check
ToolInvalid ==
    argv.tool.given /\ argv.tool.value \notin {"bandit", "flake8", "pylint", "pyre-check"}

\* nothing was started, nothing was handed to subprocess.run
NoSubprocess == called = <<>> /\ attempts = <<>> /\ proc = "none" /\ run = NoRun

\* nothing reached the report file or standard output
NoOutputRouted == outcome = "none" /\ stdout = <<>> /\ report = report0

\* s ends with t
EndsWith(s, t) == Len(t) <= Len(s) /\ SubSeq(s, Len(s) - Len(t) + 1, Len(s)) = t

\* The entries of a comma-separated string, stated without the code's
\* operators: between two neighbouring commas (or string ends), the run from the
\* first to the last character that is not whitespace, if there is one; in
\* the order of the string.
Bounds(s) == {0, Len(s) + 1} \cup {i \in 1..Len(s) : s[i] = ","}

NextBound(s, lo) == CHOOSE hi \in Bounds(s) : hi > lo /\ \A b \in Bounds(s) : b > lo => b >= hi

Solid(s, lo) == {i \in (lo+1)..(NextBound(s, lo)-1) : s[i] \notin {" "}}

Kept(s) == {lo \in Bounds(s) \ {Len(s) + 1} : Solid(s, lo) # {}}

Least(S) == CHOOSE x \in S : \A y \in S : x <= y

Greatest(S) == CHOOSE x \in S : \A y \in S : x >= y

TrimmedEntries(s) ==
    [i \in 1..Cardinality(Kept(s)) |->
        LET lo == CHOOSE x \in Kept(s) : Cardinality({y \in Kept(s) : y < x}) = i - 1
        IN  SubSeq(s, Least(Solid(s, lo)), Greatest(Solid(s, lo)))]

\* the adapters' failure indicators
FailureIndicator(adapter) ==
    CASE adapter = "analyze_with_bandit" -> "Bandit analysis failed: "
      [] adapter = "analyze_with_flake8" -> "Flake8 analysis failed: "
      [] adapter = "analyze_with_pylint" -> "Pylint analysis failed: "
      [] adapter = "analyze_with_pyre"   -> "Pyre analysis failed: "

\* the string was routed like a normal result, and the exit status follows the routing
RoutedAsResult ==
    /\ outcome \in {"file", "stdout", "ioerror"}
    /\ outcome = (IF ~Truthy(args.report_file) THEN "stdout"
                  ELSE IF exitCode = 0 THEN "file" ELSE "ioerror")
    /\ outcome = "file" => report = [exists |-> TRUE, data |-> analysis_results]
    /\ outcome = "stdout" => IsPrefix(analysis_results, stdout)
    /\ exitCode = (IF outcome = "ioerror" THEN 1 ELSE 0)

----------------------------------------------------------------------------
(* C1 *)

\* C1: a finished run of a command line made of the declared options exits
\* with status 1 if the target path does not exist, the --tool value is outside
\* the four names, or writing the report file failed, and with status 0 otherwise.
C1_ExitStatus ==
    (Done /\ ~argv.unrecognized) =>
        exitCode = (IF PathMissing \/ ToolInvalid \/ outcome = "ioerror" THEN 1 ELSE 0)

----------------------------------------------------------------------------
(* C2 *)

\* C2: when the target path does not exist, no external process is started and
\* nothing is written to the report file or to standard output at any point of
\* the run, and the run of a parsed command line ends right after the path
\* check with exit status 1.
C2_MissingPath ==
    PathMissing =>
        /\ NoSubprocess
        /\ NoOutputRouted
        /\ args.parsed => /\ pc \in {"parsed", "done"}
                          /\ Done => exitCode = 1 /\ pathChecked

C2_Witness ==
    /\ Done /\ args.parsed /\ args.path = MissingPath /\ PathMissing
    /\ pathChecked /\ exitCode = 1 /\ attempts = <<>>

----------------------------------------------------------------------------
(* C3 *)

\* C3: with a --tool value outside the four names, whether or not the target
\* path exists, argument parsing yields no Namespace and ends the process with
\* a non-zero exit status; check_path is never called and no subprocess runs.
C3_InvalidTool ==
    ToolInvalid =>
        /\ pc \in {"start", "done"}
        /\ ~args.parsed
        /\ ~pathChecked
        /\ NoSubprocess
        /\ Done => exitCode \notin {0, NoExit}

C3_Witness ==
    /\ Done /\ ToolInvalid /\ ~PathMissing /\ ~argv.unrecognized
    /\ exitCode = 2 /\ ~pathChecked /\ attempts = <<>>

----------------------------------------------------------------------------
(* C4 *)

\* C4: when --report_file is given and the write succeeds, the file holds
\* exactly the string the adapter returned, whatever it held before and with
\* nothing added, and standard output stays empty; when --report_file is
\* omitted, that string appears on standard output (print ends it with a
\* newline) and the report file is untouched.
C4_Routing ==
    (Done /\ outcome # "none") =>
        /\ analysis_results = ResultOf(called[1], run, attempts[1])
        /\ (Truthy(args.report_file) /\ outcome # "ioerror") =>
               /\ outcome = "file"
               /\ report = [exists |-> TRUE, data |-> analysis_results]
               /\ stdout = <<>>
        /\ ~args.report_file.given =>
               /\ outcome = "stdout"
               /\ IsPrefix(analysis_results, stdout)
               /\ Len(stdout) <= Len(analysis_results) + 1
               /\ report = report0

C4_Witness ==
    /\ Done /\ outcome = "file" /\ report0 = [exists |-> TRUE, data |-> <<"old">>]
    /\ run.kind = "ok" /\ analysis_results = <<"finding">>
    /\ report.data = <<"finding">>

----------------------------------------------------------------------------
(* C5 *)

\* the adapter returned a string made of its failure indicator, the error's
\* text, a newline and the captured standard error
FailureText ==
    /\ Head(analysis_results) = FailureIndicator(called[1])
    /\ EndsWith(analysis_results, <<"\n">> \o run.stderr)

\* C5 as stated: whenever the external process exited with a non-zero status,
\* the adapter returns its failure text and the finished run has exit status 0.
C5_Original ==
    (Done /\ run.kind = "CalledProcessError") => (FailureText /\ exitCode = 0)

\* C5 amended: for each of the four adapters, a non-zero exit status of the
\* external process does not end the run: the adapter returns its failure
\* indicator followed by the captured standard error, main goes on to output
\* routing with that string, and the run exits 0 unless writing the report
\* file fails, in which case it exits 1.
C5_NonZeroExit ==
    run.kind = "CalledProcessError" =>
        /\ pc \in {"analyzed", "done"}
        /\ proc = "exited"
        /\ FailureText
        /\ Done => RoutedAsResult

C5_Witness ==
    /\ Done /\ run.kind = "CalledProcessError" /\ run.stderr = <<"trace">>
    /\ called = <<"analyze_with_flake8">>
    /\ outcome = "stdout" /\ exitCode = 0
    /\ Contains(stdout, <<"\n", "trace">>)

----------------------------------------------------------------------------
(* C6 *)

\* the returned string says that the executable was not found
SaysNotFound ==
    \/ analysis_results = <<"Pyre is not installed or not in PATH. Please install Pyre.">>
    \/ Contains(analysis_results,
                <<"[Errno 2] No such file or directory: '">> \o attempts[1][1])

\* C6 as stated: whenever the executable could not be found or started, the
\* adapter returns a message saying the tool was not found, the message is
\* routed like a result and the finished run has exit status 0.
C6_Original ==
    (Done /\ run.kind \in StartFailures) =>
        (SaysNotFound /\ outcome \in {"file", "stdout"} /\ exitCode = 0)

\* C6 amended: when the executable cannot be started, no adapter ends the run.
\* If it was not found, the pyre adapter returns its own "not installed or not
\* in PATH" message and the other three return "Error running <Tool>: "
\* followed by the system's "No such file or directory" error; if it could not
\* be started for another reason, all four return "Error running <Tool>: "
\* followed by that error.  The message is routed like a result and the run
\* exits 0 unless writing the report file fails, in which case it exits 1.
C6_NotStarted ==
    run.kind \in StartFailures =>
        /\ pc \in {"analyzed", "done"}
        /\ proc = "nostart"
        /\ IF run.kind = "FileNotFoundError"
           THEN /\ SaysNotFound
                /\ called[1] = "analyze_with_pyre" =>
                     analysis_results =
                        <<"Pyre is not installed or not in PATH. Please install Pyre.">>
           ELSE /\ ~SaysNotFound
                /\ Head(analysis_results) \in
                     {"Error running Bandit: ", "Error running Flake8: ",
                      "Error running Pylint: ", "Error running Pyre: "}
        /\ Done => RoutedAsResult

C6_Witness ==
    /\ Done /\ run.kind = "FileNotFoundError" /\ called = <<"analyze_with_pyre">>
    /\ outcome = "file" /\ exitCode = 0
    /\ report.data = <<"Pyre is not installed or not in PATH. Please install Pyre.">>

----------------------------------------------------------------------------
(* C7 *)

\* C7: the command handed to subprocess.run is built from exactly the trimmed,
\* non-empty entries of the exclude string, in their order: bandit adds one
\* --exclude=<entry> argument per entry; flake8 adds --exclude and the
\* comma-joined entries, pylint adds --ignore and the comma-joined entries
\* (nothing when there is no entry); pyre's command is pyre, analyze, path
\* whatever the exclude string is.
C7_ExcludeEntries ==
    attempts # <<>> =>
        LET es   == TrimmedEntries(args.exclude)
            cmd  == attempts[1]
            tail == IF es = <<>> THEN <<>> ELSE <<Join(<<",">>, es)>>
        IN
        /\ called[1] = "analyze_with_bandit" =>
             cmd = << <<"bandit">>, <<"-r">>, args.path, <<"-f">>, <<"txt">> >>
                     \o [i \in 1..Len(es) |-> <<"--exclude=">> \o es[i]]
        /\ called[1] = "analyze_with_flake8" =>
             /\ SubSeq(cmd, 6, Len(cmd)) = (IF es = <<>> THEN <<>> ELSE << <<"--exclude">> >>) \o tail
             /\ cmd[1] = <<"flake8">> /\ cmd[2] = args.path
        /\ called[1] = "analyze_with_pylint" =>
             /\ SubSeq(cmd, 4, Len(cmd)) = (IF es = <<>> THEN <<>> ELSE << <<"--ignore">> >>) \o tail
             /\ cmd[1] = <<"pylint">> /\ cmd[2] = args.path
        /\ called[1] = "analyze_with_pyre" =>
             cmd = << <<"pyre">>, <<"analyze">>, args.path >>
        /\ args.exclude = ExcludeABC => es = << <<"a">>, <<"b">>, <<"c">> >>

C7_Witness ==
    /\ args.parsed /\ args.exclude = ExcludeABC
    /\ called = <<"analyze_with_bandit">>
    /\ attempts = << << <<"bandit">>, <<"-r">>, <<"/tmp/proj">>, <<"-f">>, <<"txt">>,
                        <<"--exclude=", "a">>, <<"--exclude=", "b">>, <<"--exclude=", "c">> >> >>

----------------------------------------------------------------------------
(* C8 *)

\* the exclude string has a character that is neither a comma nor whitespace
HasEntry(s) == \E i \in 1..Len(s) : s[i] \notin {",", " "}

\* C8: the flake8 command always holds --extend-ignore=E722,B001,B028,
\* --select=E,W,F,C90 and --max-complexity=10; it holds --exclude followed by
\* the comma-joined trimmed entries exactly when the exclude string has a
\* non-empty trimmed entry, and no --exclude argument otherwise.
C8_Flake8Command ==
    (attempts # <<>> /\ called[1] = "analyze_with_flake8") =>
        LET cmd == attempts[1] IN
        /\ \E i \in 1..Len(cmd) : cmd[i] = <<"--extend-ignore=E722,B001,B028">>
        /\ \E i \in 1..Len(cmd) : cmd[i] = <<"--select=E,W,F,C90">>
        /\ \E i \in 1..Len(cmd) : cmd[i] = <<"--max-complexity=10">>
        /\ HasEntry(args.exclude) =>
             /\ Cardinality({i \in 1..Len(cmd) : cmd[i] = <<"--exclude">>}) = 1
             /\ \E i \in 1..(Len(cmd)-1) :
                  /\ cmd[i] = <<"--exclude">>
                  /\ cmd[i+1] = Join(<<",">>, TrimmedEntries(args.exclude))
        /\ ~HasEntry(args.exclude) =>
             \A i \in 1..Len(cmd) : cmd[i] # <<"--exclude">>

C8_Witness ==
    /\ args.parsed /\ args.exclude = ExcludeTestsBuild /\ args.tool = "flake8"
    /\ attempts = << << <<"flake8">>, <<"/tmp/proj">>, <<"--extend-ignore=E722,B001,B028">>,
                        <<"--select=E,W,F,C90">>, <<"--max-complexity=10">>,
                        <<"--exclude">>, <<"tests", ",", "build">> >> >>

----------------------------------------------------------------------------
(* C9 *)

\* the adapter and the executable of each tool selector
AdapterFor(tool) ==
    CASE tool = "bandit"     -> <<"analyze_with_bandit", "bandit">>
      [] tool = "flake8"     -> <<"analyze_with_flake8", "flake8">>
      [] tool = "pylint"     -> <<"analyze_with_pylint", "pylint">>
      [] tool = "pyre-check" -> <<"analyze_with_pyre", "pyre">>

\* C9: with a valid path, main calls the adapter of the configured tool and no
\* other, and the one command built and run starts with that tool's executable.
C9_Dispatch ==
    /\ (pc \in {"running", "analyzed"} \/ outcome # "none") =>
          /\ ~PathMissing
          /\ called = <<AdapterFor(args.tool)[1]>>
          /\ Len(attempts) = 1
          /\ attempts[1][1] = <<AdapterFor(args.tool)[2]>>
    /\ called # <<>> => (pc \in {"running", "analyzed"} \/ outcome # "none")

C9_Witness ==
    /\ proc = "exited" /\ args.tool = "pyre-check" /\ ~PathMissing
    /\ called = <<"analyze_with_pyre">>
    /\ attempts = << << <<"pyre">>, <<"analyze">>, <<"/tmp/proj">> >> >>

----------------------------------------------------------------------------
(* C10 *)

\* C10: a run hands at most one command to subprocess.run, and only once
\* parsing has produced a Namespace and check_path has found the path; output
\* is routed only once the child has exited or failed to start; a run that
\* passed validation and finished ended in exactly one of: the result in the
\* report file, the result on standard output, or a failed report write with
\* exit status 1.
C10_OneShot ==
    /\ Len(attempts) <= 1 /\ Len(called) <= 1
    /\ attempts # <<>> => (args.parsed /\ pathChecked /\ ~PathMissing)
    /\ proc # "none" => Len(attempts) = 1
    /\ (outcome # "none" \/ stdout # <<>> \/ report # report0) =>
          (proc \in {"exited", "nostart"} /\ Done)
    /\ (Done /\ args.parsed /\ pathChecked /\ ~PathMissing) =>
          /\ proc \in {"exited", "nostart"}
          /\ \/ outcome = "file" /\ exitCode = 0 /\ stdout = <<>>
                /\ report = [exists |-> TRUE, data |-> analysis_results]
             \/ outcome = "stdout" /\ exitCode = 0 /\ report = report0
                /\ stdout = analysis_results \o <<"\n">>
             \/ outcome = "ioerror" /\ exitCode = 1 /\ stdout = <<>>

C10_Witness ==
    /\ Done /\ proc = "nostart" /\ Len(attempts) = 1
    /\ outcome = "ioerror" /\ exitCode = 1

====
